---- MODULE Spec2Model ----
(***************************************************************************)
(* MFCC feature extraction of vowel_discri/mfcc.py as a state machine.     *)
(*                                                                         *)
(* A caller owns one waveform buffer and one set of keyword arguments and  *)
(* calls mfcc on them, choosing zeroth_coef and cep_mean_norm per call.    *)
(* One action per statement of mfcc (and of melspectrogram, which it       *)
(* inlines), so every intermediate array of the code is a state variable.  *)
(*                                                                         *)
(* Numbers.  TLA+ has integers only.  Samples are integers; the            *)
(* pre-emphasized signal is kept in hundredths (b = [1, -.97] becomes      *)
(* [100, -97]); the result of cepstral mean normalization, which divides   *)
(* by the number of rows, is kept as a numerator matrix with a common      *)
(* denominator, so means are exact rationals.  The numerical kernels of    *)
(* librosa and scipy (Fourier kernel, mel triangles, log10, cosines) are   *)
(* integer kernels of the same shape, support and error behaviour; the     *)
(* shapes, the slicing, the broadcasting and the exceptions are those of   *)
(* the calls the code makes.  dct_type 1 is not modelled.                  *)
(***************************************************************************)
EXTENDS Integers, Sequences, FiniteSets, TLC

VARIABLES
    wave,          \* the caller's waveform array (argument y of mfcc)
    kw,            \* the caller's keyword arguments, fixed over a run
    pc,            \* the statement of mfcc about to run; "idle" between calls
    zeroth_coef,   \* argument zeroth_coef of the call in progress
    cep_mean_norm, \* argument cep_mean_norm of the call in progress
    y,             \* mfcc's local y after line 141
    spec,          \* melspectrogram's local S (line 97)
    mel,           \* melspectrogram's return value (line 102)
    S,             \* mfcc's local S (line 144)
    coefs,         \* mfcc's local coefs
    result,        \* outcome of the last finished call
    calls,         \* number of finished calls
    first          \* per (zeroth_coef, cep_mean_norm): outcome of the first such call

vars == <<wave, kw, pc, zeroth_coef, cep_mean_norm, y, spec, mel, S, coefs,
          result, calls, first>>

----------------------------------------------------------------------------
\* Bounds of the model

\* longest waveform that is enumerated pattern by pattern
MaxLen == 8

\* calls of mfcc a caller makes in one run
MaxCalls == 2

----------------------------------------------------------------------------
\* Program constants

\* b[0] of pre_emphasize, in hundredths
B0 == 100

\* b[1] of pre_emphasize, in hundredths
B1 == -97

\* a of pre_emphasize
A0 == 1

\* default sr of mfcc and melspectrogram
SR == 16000

\* default n_mfcc of mfcc
N_MFCC == 13

\* default n_fft of melspectrogram
N_FFT == 400

\* default hop_length of melspectrogram
HOP_LENGTH == 160

\* default power of melspectrogram
POWER == 2

\* default n_fft of log_energy
LOG_E_N_FFT == 400

\* default hop_length of log_energy
LOG_E_HOP_LENGTH == 160

\* default number of mel channels (module docstring: 128 channels)
N_MELS == 128

----------------------------------------------------------------------------
\* Arrays and outcomes

Abs(x) == IF x < 0 THEN -x ELSE x

Min(a, b) == IF a < b THEN a ELSE b

Max(a, b) == IF a > b THEN a ELSE b

\* the one-dimensional array F(1), ..., F(n), held as a sequence
Array(F(_), n) == SubSeq([i \in 1..n |-> F(i)], 1, n)

\* a rows x cols array; den is the common denominator of its entries
Mat(rows, cols, F(_, _)) ==
    [rows |-> rows, cols |-> cols, den |-> 1,
     a |-> Array(LAMBDA i : Array(LAMBDA t : F(i, t), cols), rows)]

NoArray == [rows |-> 0, cols |-> 0, den |-> 1, a |-> <<>>]

Ok(v) == [ok |-> TRUE, val |-> v, exc |-> "none"]

Raise(e) == [ok |-> FALSE, val |-> NoArray, exc |-> e]

NoResult == [ok |-> FALSE, val |-> NoArray, exc |-> "not called"]

RECURSIVE SumRange(_, _, _)
\* F(lo) + ... + F(hi), by halves
SumRange(F(_), lo, hi) ==
    IF lo > hi THEN 0
    ELSE IF lo = hi THEN F(lo)
    ELSE LET mid == (lo + hi) \div 2
         IN  SumRange(F, lo, mid) + SumRange(F, mid + 1, hi)

\* F(1) + ... + F(n)
SumTo(F(_), n) == SumRange(F, 1, n)

RECURSIVE MaxRange(_, _, _)
\* max(F(lo), ..., F(hi)), lo <= hi, by halves
MaxRange(F(_), lo, hi) ==
    IF lo >= hi THEN F(lo)
    ELSE LET mid == (lo + hi) \div 2
         IN  Max(MaxRange(F, lo, mid), MaxRange(F, mid + 1, hi))

\* max(F(1), ..., F(n)), n >= 1
MaxTo(F(_), n) == MaxRange(F, 1, n)

RECURSIVE ILog2In(_, _, _)
\* the largest e in lo..hi with 2^e <= x, given 2^lo <= x, by bisection
ILog2In(x, lo, hi) ==
    IF lo >= hi THEN lo
    ELSE LET mid == (lo + hi + 1) \div 2
         IN  IF 2^mid <= x THEN ILog2In(x, mid, hi) ELSE ILog2In(x, lo, mid - 1)

\* floor(log2(x)), 1 <= x < 2^31
ILog2(x) == ILog2In(x, 0, 30)

----------------------------------------------------------------------------
\* pre_emphasize

\* scipy.signal.lfilter_zi(b, a) for a first-order FIR filter:
\* zi = (b[1] - a[1]*b[0]) / (1 + a[1]) with a padded to [a0, 0]
lfilter_zi == B1 \div A0

\* scipy.signal.lfilter(b, a, x, zi)[0]: out[0] = b0*x[0] + zi,
\* out[n] = b0*x[n] + b1*x[n-1]; a fresh array, x is not written.  With a of
\* length 1 scipy filters by np.convolve(b, x), which raises ValueError on an
\* empty x.
lfilter(x, zi) ==
    IF Len(x) = 0 THEN Raise("ValueError")
    ELSE Ok(Array(LAMBDA n : IF n = 1 THEN (B0 * x[1]) \div A0 + zi
                             ELSE (B0 * x[n] + B1 * x[n - 1]) \div A0,
                  Len(x)))

pre_emphasize(x) == lfilter(x, lfilter_zi)

----------------------------------------------------------------------------
\* librosa.core.spectrum.stft

\* np.pad(x, p, mode='reflect') index of padded position q (1-based, 1..Len+2p)
ReflectIndex(n, p, q) ==
    LET period == 2 * (n - 1)
        r == IF n = 1 THEN 0 ELSE (q - 1 - p) % period
    IN  IF r < n THEN r + 1 ELSE period - r + 1

PadReflect(x, p) == Array(LAMBDA q : x[ReflectIndex(Len(x), p, q)], Len(x) + 2 * p)

\* x[base + 1] + x[base + 1 + step] + ... over the offsets below n
CombSum(x, base, n, step) ==
    SumRange(LAMBDA j : x[base + 1 + j * step], 0, (n - 1) \div step)

\* stft(y, n_fft, hop_length, center): (1 + n_fft//2) bins by
\* 1 + (len - n_fft)//hop_length frames, no frame for a buffer shorter than
\* n_fft (ParameterError).  Bin k of a frame is the integer comb kernel
\* sum of the frame's samples at stride k + 1 (bin 0: the frame's sum).
stft(x, n_fft, hop_length, center) ==
    IF center /\ Len(x) = 0 THEN Raise("ParameterError")
    ELSE LET xx == IF center THEN PadReflect(x, n_fft \div 2) ELSE x
         IN  IF Len(xx) < n_fft THEN Raise("ParameterError")
             ELSE Ok(Mat(1 + n_fft \div 2,
                         1 + (Len(xx) - n_fft) \div hop_length,
                         LAMBDA k, t : CombSum(xx, (t - 1) * hop_length, n_fft, k)))

RECURSIVE IPow(_, _)
IPow(x, p) == IF p <= 0 THEN 1 ELSE x * IPow(x, p - 1)

\* np.abs(D)**power
AbsPower(D, power) == Mat(D.rows, D.cols, LAMBDA k, t : IPow(Abs(D.a[k][t]), power))

----------------------------------------------------------------------------
\* log_energy

\* 10*log10(x) in dB, integer kernel 3*floor(log2(x)); log10(0) is -inf
Log10dB(x) == IF x <= 0 THEN -1000000 ELSE 3 * ILog2(x)

\* log_energy(y, n_fft, hop_length): one value per frame, the sum over the
\* frequency bins of the power spectrum, in dB
log_energy(x, n_fft, hop_length) ==
    LET D == stft(x, n_fft, hop_length, FALSE)
    IN  IF ~D.ok THEN D
        ELSE LET power_spectrum == AbsPower(D.val, 2)
             IN  Ok(Array(LAMBDA t : Log10dB(SumTo(LAMBDA k : power_spectrum.a[k][t],
                                                   power_spectrum.rows)),
                          power_spectrum.cols))

----------------------------------------------------------------------------
\* melspectrogram

\* a buffer shorter than one frame is padded with zeros to n_fft samples
MelspectrogramPadded(x, k) ==
    LET xx == Array(LAMBDA n : IF n <= Len(x) THEN x[n] ELSE 0, Max(Len(x), k.n_fft))
        D == stft(xx, k.n_fft, k.hop_length, FALSE)
    IN  IF D.ok THEN Ok(AbsPower(D.val, k.power)) ELSE D

\* the call of stft with center left at librosa's default, True
MelspectrogramCentered(x, k) ==
    LET D == stft(x, k.n_fft, k.hop_length, TRUE)
    IN  IF D.ok THEN Ok(AbsPower(D.val, k.power)) ELSE D

\* line 97: S = np.abs(stft(y, n_fft=n_fft, hop_length=hop_length, center=False))**power
MelspectrogramS(x, k) ==
    LET D == stft(x, k.n_fft, k.hop_length, FALSE)
    IN  IF D.ok THEN Ok(AbsPower(D.val, k.power)) ELSE D

\* librosa.filters.mel(sr, n_fft, n_mels): weight of bin k (0-based) in band
\* m (0-based): a triangle centred at (m+1)*B/(n_mels+1), B = n_fft//2
MelWeight(n_fft, n_mels, m, k) ==
    LET B == n_fft \div 2
    IN  Max(0, B - Abs(k * (n_mels + 1) - (m + 1) * B))

\* lines 100-102: np.dot(mel_basis, S); the sum runs over the bins where the
\* band's triangle is not zero
MelDot(P, k) ==
    LET B == k.n_fft \div 2
        M == k.n_mels
    IN  Mat(M, P.cols,
            LAMBDA m, t :
                SumRange(LAMBDA b : MelWeight(k.n_fft, M, m - 1, b) * P.a[b + 1][t],
                         ((m - 1) * B) \div (M + 1),
                         Min(B, ((m + 1) * B) \div (M + 1) + 1)))

----------------------------------------------------------------------------
\* librosa.core.spectrum.power_to_db(S), ref = 1.0, amin = 1e-10, top_db = 80

\* 10*log10(max(amin, x)): -100 dB at amin, integer kernel 3*floor(log2(x)) above
PowerDb(x) == IF x <= 0 THEN -100 ELSE 3 * ILog2(x)

power_to_db(P) ==
    LET log_spec == Mat(P.rows, P.cols, LAMBDA m, t : PowerDb(P.a[m][t]))
        top == MaxTo(LAMBDA m : MaxTo(LAMBDA t : log_spec.a[m][t], P.cols), P.rows)
    IN  Mat(P.rows, P.cols, LAMBDA m, t : Max(log_spec.a[m][t], top - 80))

----------------------------------------------------------------------------
\* scipy.fftpack.dct(S, axis=0, type, norm)

\* M*cos(pi*x/(2M)) as a triangle wave of period 4M
TriCos(x, M) ==
    LET r == x % (4 * M)
    IN  IF r <= 2 * M THEN M - r ELSE r - 3 * M

\* row i (0-based) of the transform of column t
DctEntry(P, type, norm, i, t) ==
    LET M == P.rows
        scale == IF norm = "ortho" THEN 1 ELSE 2
    IN  IF type = 2
        THEN scale * SumTo(LAMBDA m : P.a[m][t] * TriCos(i * (2 * m - 1), M), M)
        ELSE M * P.a[1][t]
             + scale * SumTo(LAMBDA m : P.a[m + 1][t] * TriCos((2 * i + 1) * m, M), M - 1)

\* line 147: the slice [:n_mfcc] keeps at most n_mfcc of the M rows
DctHead(P, k) ==
    Mat(Min(k.n_mfcc, P.rows), P.cols,
        LAMBDA i, t : DctEntry(P, k.dct_type, k.norm, i - 1, t))

----------------------------------------------------------------------------
\* mfcc, lines 149-157

\* line 151: coefs[0, :] = log_energy(y).  log_energy is called with its own
\* defaults, whatever n_fft and hop_length the call passed to melspectrogram.
\* The right-hand side is evaluated first; numpy then broadcasts a vector of
\* length cols or of length 1 into row 0 and raises ValueError otherwise.
ReplaceZeroth(c, x) ==
    LET e == log_energy(x, LOG_E_N_FFT, LOG_E_HOP_LENGTH)
    IN  IF ~e.ok THEN e
        ELSE IF c.rows = 0 THEN Raise("IndexError")
        ELSE IF Len(e.val) = c.cols
             THEN Ok([c EXCEPT !.a[1] = e.val])
        ELSE IF Len(e.val) = 1
             THEN Ok([c EXCEPT !.a[1] = Array(LAMBDA t : e.val[1], c.cols)])
        ELSE Raise("ValueError")

\* line 153: coefs = coefs[1:, :]
RemoveZeroth(c) ==
    [rows |-> Max(0, c.rows - 1), cols |-> c.cols, den |-> c.den,
     a |-> Array(LAMBDA i : c.a[i + 1], Max(0, c.rows - 1))]

\* lines 149-153
ZerothCoefPolicy(c, x, policy) ==
    IF policy = "energy" THEN ReplaceZeroth(c, x)
    ELSE IF policy = "remove" THEN Ok(RemoveZeroth(c))
    ELSE Ok(c)

\* coefs - np.mean(coefs, axis=1, keepdims=True): the mean of each row over the frames
MeanNormalizeAxis1(c) ==
    IF c.rows = 0 THEN c
    ELSE [c EXCEPT
            !.den = c.cols,
            !.a = Mat(c.rows, c.cols,
                      LAMBDA i, t : c.cols * c.a[i][t] - SumTo(LAMBDA u : c.a[i][u], c.cols)).a]

\* line 157: coefs - np.mean(coefs, axis=0).  np.mean over axis 0 is one mean
\* per column (frame), taken over the rows; subtracting it broadcasts over rows.
\* Entries become (rows*c[i][t] - sum_j c[j][t]) / rows.
MeanNormalize(c) ==
    IF c.rows = 0 THEN c
    ELSE [c EXCEPT
            !.den = c.rows,
            !.a = Mat(c.rows, c.cols,
                      LAMBDA i, t : c.rows * c.a[i][t] - SumTo(LAMBDA j : c.a[j][t], c.rows)).a]

----------------------------------------------------------------------------
\* Inputs

\* the integer triangle wave that stands for the 440 Hz sine at 16 kHz
\* (period 36 samples, amplitude 9)
Tone(i) ==
    LET r == i % 36
    IN  IF r <= 18 THEN 9 - r ELSE r - 27

Patterns == {"zero", "ramp", "alt", "tone"}

Sample(p, i) ==
    CASE p = "zero" -> 0
      [] p = "ramp" -> i
      [] p = "alt"  -> IF i % 2 = 0 THEN 2 ELSE -1
      [] OTHER      -> Tone(i)

Waveform(p, n) == Array(LAMBDA i : Sample(p, i), n)

ShortWaves == {Waveform(p, n) : p \in Patterns, n \in 0..MaxLen}

\* 200 samples (shorter than a default frame), one default frame, two
LongWaves == {Waveform("tone", n) : n \in {200, 400, 560}}

\* one second and half a second at 16 kHz
OneSecond == Waveform("tone", SR)

HalfSecond == Waveform("tone", SR \div 2)

\* the defaults of mfcc and melspectrogram
DefaultKw ==
    [sr |-> SR, n_mfcc |-> N_MFCC, dct_type |-> 2, norm |-> "ortho",
     n_fft |-> N_FFT, hop_length |-> HOP_LENGTH, power |-> POWER, n_mels |-> N_MELS]

\* calls that pass small framing and filter bank keyword arguments
SmallKw ==
    { [DefaultKw EXCEPT !.n_fft = 4, !.hop_length = 2, !.n_mels = 3, !.n_mfcc = 2],
      [DefaultKw EXCEPT !.n_fft = 4, !.hop_length = 1, !.n_mels = 3, !.n_mfcc = 3,
                        !.norm = "None"],
      [DefaultKw EXCEPT !.n_fft = 2, !.hop_length = 3, !.n_mels = 2, !.n_mfcc = 1,
                        !.dct_type = 3, !.power = 1],
      [DefaultKw EXCEPT !.n_fft = 4, !.hop_length = 2, !.n_mels = 2, !.n_mfcc = 4] }

\* calls on long waveforms: the defaults, and framing other than log_energy's
LongKw ==
    { DefaultKw,
      [DefaultKw EXCEPT !.n_fft = 200, !.hop_length = 80, !.n_mels = 8],
      [DefaultKw EXCEPT !.n_fft = 200, !.hop_length = 400, !.n_mels = 8, !.n_mfcc = 9] }

Scenarios ==
    (ShortWaves \X (SmallKw \cup {DefaultKw})) \cup (LongWaves \X LongKw)

\* the end-to-end scenario, with the defaults and with a doubled hop
OneSecondScenarios ==
    {OneSecond, HalfSecond} \X {DefaultKw, [DefaultKw EXCEPT !.hop_length = 2 * HOP_LENGTH]}

Policies == {"None", "energy", "remove"}

Configs == Policies \X BOOLEAN

----------------------------------------------------------------------------
\* The caller and the statements of mfcc

InitWith(scenarios) ==
    /\ \E s \in scenarios : wave = s[1] /\ kw = s[2]
    /\ pc = "idle"
    /\ zeroth_coef = "None"
    /\ cep_mean_norm = FALSE
    /\ y = <<>>
    /\ spec = NoArray
    /\ mel = NoArray
    /\ S = NoArray
    /\ coefs = NoArray
    /\ result = NoResult
    /\ calls = 0
    /\ first = [c \in Configs |-> NoResult]

Init == InitWith(Scenarios)

InitOneSecond == InitWith(OneSecondScenarios)

\* the call returns or raises: its locals die, the caller keeps the outcome
Finish(outcome) ==
    /\ result' = outcome
    /\ calls' = calls + 1
    /\ first' = IF first[<<zeroth_coef, cep_mean_norm>>] = NoResult
                THEN [first EXCEPT ![<<zeroth_coef, cep_mean_norm>>] = outcome]
                ELSE first
    /\ pc' = "idle"
    /\ y' = <<>>
    /\ spec' = NoArray
    /\ mel' = NoArray
    /\ S' = NoArray
    /\ coefs' = NoArray
    /\ UNCHANGED <<wave, kw, zeroth_coef, cep_mean_norm>>

\* mfcc(wave, zeroth_coef=z, cep_mean_norm=c, **kw)
Call ==
    /\ pc = "idle"
    /\ calls < MaxCalls
    /\ \E z \in Policies, c \in BOOLEAN :
          /\ zeroth_coef' = z
          /\ cep_mean_norm' = c
    /\ pc' = "pre_emphasize"
    /\ UNCHANGED <<wave, kw, y, spec, mel, S, coefs, result, calls, first>>

\* the filter writes its output over the caller's array
PreEmphasizeInPlace ==
    /\ pc = "pre_emphasize"
    /\ \E r \in {pre_emphasize(wave)} :
           IF r.ok
           THEN /\ y' = r.val
                /\ wave' = r.val
                /\ pc' = "stft"
                /\ UNCHANGED <<kw, zeroth_coef, cep_mean_norm, spec, mel, S, coefs,
                               result, calls, first>>
           ELSE Finish(Raise(r.exc))

\* line 141: y = pre_emphasize(y) rebinds the local name to a new array
PreEmphasize ==
    /\ pc = "pre_emphasize"
    /\ \E r \in {pre_emphasize(wave)} :
           IF r.ok
           THEN /\ y' = r.val
                /\ pc' = "stft"
                /\ UNCHANGED <<wave, kw, zeroth_coef, cep_mean_norm, spec, mel, S, coefs,
                               result, calls, first>>
           ELSE Finish(Raise(r.exc))

\* line 144 enters melspectrogram; line 97
Stft ==
    /\ pc = "stft"
    /\ \E r \in {MelspectrogramS(y, kw)} :
           IF r.ok
           THEN /\ spec' = r.val
                /\ pc' = "mel_dot"
                /\ UNCHANGED <<wave, kw, zeroth_coef, cep_mean_norm, y, mel, S, coefs,
                               result, calls, first>>
           ELSE Finish(Raise(r.exc))

\* lines 100-102
MelBasisDot ==
    /\ pc = "mel_dot"
    /\ mel' = MelDot(spec, kw)
    /\ pc' = "power_to_db"
    /\ UNCHANGED <<wave, kw, zeroth_coef, cep_mean_norm, y, spec, S, coefs, result, calls, first>>

\* line 144: S = power_to_db(...)
PowerToDb ==
    /\ pc = "power_to_db"
    /\ S' = power_to_db(mel)
    /\ pc' = "dct"
    /\ UNCHANGED <<wave, kw, zeroth_coef, cep_mean_norm, y, spec, mel, coefs, result, calls, first>>

\* line 147
Dct ==
    /\ pc = "dct"
    /\ coefs' = DctHead(S, kw)
    /\ pc' = "zeroth_coef"
    /\ UNCHANGED <<wave, kw, zeroth_coef, cep_mean_norm, y, spec, mel, S, result, calls, first>>

\* lines 149-153
ZerothCoef ==
    /\ pc = "zeroth_coef"
    /\ \E r \in {ZerothCoefPolicy(coefs, y, zeroth_coef)} :
           IF r.ok
           THEN /\ coefs' = r.val
                /\ pc' = "cep_mean_norm"
                /\ UNCHANGED <<wave, kw, zeroth_coef, cep_mean_norm, y, spec, mel, S,
                               result, calls, first>>
           ELSE Finish(Raise(r.exc))

\* lines 155-157
CepMeanNorm ==
    /\ pc = "cep_mean_norm"
    /\ coefs' = IF cep_mean_norm THEN MeanNormalize(coefs) ELSE coefs
    /\ pc' = "return"
    /\ UNCHANGED <<wave, kw, zeroth_coef, cep_mean_norm, y, spec, mel, S, result, calls, first>>

\* line 159
Return ==
    /\ pc = "return"
    /\ Finish(Ok(coefs))

Next ==
    \/ Call
    \/ PreEmphasize
    \/ Stft
    \/ MelBasisDot
    \/ PowerToDb
    \/ Dct
    \/ ZerothCoef
    \/ CepMeanNorm
    \/ Return

Spec == Init /\ [][Next]_vars

\* a caller that makes one call
CallOnce == calls = 0 /\ Call

NextOnce ==
    \/ CallOnce
    \/ PreEmphasize
    \/ Stft
    \/ MelBasisDot
    \/ PowerToDb
    \/ Dct
    \/ ZerothCoef
    \/ CepMeanNorm
    \/ Return

SpecOneSecond == InitOneSecond /\ [][NextOnce]_vars

----------------------------------------------------------------------------
\* Properties

\* a call has finished: result is its outcome, zeroth_coef and cep_mean_norm
\* are the arguments it was made with
Returned == pc = "idle" /\ calls > 0

\* the waveform holds at least one frame of the call's n_fft
HoldsAFrame == Len(wave) >= kw.n_fft

FrameCount == (Len(wave) - kw.n_fft) \div kw.hop_length + 1

RowSum(m, i) == SumTo(LAMBDA t : m.a[i][t], m.cols)

ColSum(m, t) == SumTo(LAMBDA i : m.a[i][t], m.rows)

\* C1: for every waveform of at least n_fft samples and every zeroth_coef,
\* mfcc returns a matrix of n_mfcc rows (n_mfcc - 1 under 'remove') and
\* floor((len - n_fft) / hop_length) + 1 columns.
C1_ShapeForEveryPolicy ==
    (Returned /\ HoldsAFrame) =>
        /\ result.ok
        /\ result.val.rows = IF zeroth_coef = "remove" THEN kw.n_mfcc - 1 ELSE kw.n_mfcc
        /\ result.val.cols = FrameCount

\* C2: with cep_mean_norm, every coefficient row of the returned matrix sums
\* to zero over the frames.
C2_RowsSumToZero ==
    (Returned /\ result.ok /\ cep_mean_norm) =>
        \A i \in 1..result.val.rows : RowSum(result.val, i) = 0

\* C3: for either value of cep_mean_norm, the matrix returned under 'remove'
\* is the matrix returned under None with its row 0 dropped (entries compared
\* as fractions a/den).
C3_RemoveIsNoneWithoutRow0 ==
    \A c \in BOOLEAN :
        LET none == first[<<"None", c>>]
            removed == first[<<"remove", c>>]
        IN  (none.ok /\ removed.ok) =>
                /\ removed.val.rows = none.val.rows - 1
                /\ removed.val.cols = none.val.cols
                /\ \A i \in 1..removed.val.rows, t \in 1..removed.val.cols :
                      removed.val.a[i][t] * none.val.den
                          = none.val.a[i + 1][t] * removed.val.den

\* C4: pre_emphasize of an all-zero waveform is all zero, first sample included.
C4_ZeroStaysZero ==
    (pc = "stft" /\ \A i \in 1..Len(wave) : wave[i] = 0) =>
        \A i \in 1..Len(y) : y[i] = 0

\* C5: under 'energy', whatever n_fft and hop_length the call passes, row 0 of
\* the result is log_energy of the pre-emphasized waveform computed with the
\* call's n_fft and hop_length, one value per output frame.
C5_EnergyUsesTheCallFraming ==
    (Returned /\ HoldsAFrame /\ zeroth_coef = "energy" /\ ~cep_mean_norm) =>
        /\ result.ok
        /\ result.val.cols = FrameCount
        /\ result.val.a[1]
             = log_energy(pre_emphasize(wave).val, kw.n_fft, kw.hop_length).val

\* C6: a call on a waveform that is empty or shorter than n_fft ends in the
\* invalid-input error (numpy's ValueError for the empty waveform, librosa's
\* ParameterError for the short one) and returns no matrix.
C6_ShortWaveformRaises ==
    (Returned /\ ~HoldsAFrame) =>
        /\ ~result.ok
        /\ result.exc = IF Len(wave) = 0 THEN "ValueError" ELSE "ParameterError"
        /\ result.val = NoArray

\* C6 witness: the 200-sample waveform with n_fft = 400 has been refused
C6_Witness ==
    /\ Returned
    /\ Len(wave) = 200
    /\ kw.n_fft = 400
    /\ result.exc = "ParameterError"

\* C7: a call with n_mfcc above the number of mel bands ends in a
\* configuration error and returns no matrix.
C7_TooManyCoefficientsRaises ==
    (Returned /\ HoldsAFrame /\ zeroth_coef # "energy" /\ kw.n_mfcc > kw.n_mels) =>
        /\ ~result.ok
        /\ result.exc = "ConfigurationError"

\* the end-to-end call: one second of signal, the defaults, no zeroth-coefficient
\* policy, no normalization
EndToEnd ==
    /\ Returned
    /\ Len(wave) = 16000
    /\ kw = DefaultKw
    /\ zeroth_coef = "None"
    /\ ~cep_mean_norm

\* C8 as stated: the end-to-end call returns a matrix of shape (13, 99).
C8_Shape13x99 ==
    EndToEnd => (result.ok /\ result.val.rows = 13 /\ result.val.cols = 99)

\* C8 amended: the end-to-end call returns a matrix of shape (13, 98).
C8_Shape13x98 ==
    EndToEnd => (result.ok /\ result.val.rows = 13 /\ result.val.cols = 98)

\* C8 witness: the end-to-end call has returned a matrix
C8_Witness == EndToEnd /\ result.ok /\ result.val.rows > 0

\* C9: no step of mfcc writes the caller's waveform, and every call returns
\* what the first call with the same zeroth_coef and cep_mean_norm returned.
C9_DeterministicNoSideEffects ==
    [][/\ wave' = wave
       /\ (pc # "idle" /\ pc' = "idle") =>
              result' = first'[<<zeroth_coef, cep_mean_norm>>]]_vars

\* C9 witness: two calls with the same arguments have returned a matrix
C9_Witness ==
    /\ Returned
    /\ calls >= 2
    /\ Cardinality({c \in Configs : first[c] # NoResult}) = 1
    /\ result.ok
    /\ result.val.rows > 0

====
